---- MODULE Spec2Model ----
(***************************************************************************)
(* A model of triage.component.architect.feature_block_generators:         *)
(* feature_blocks_from_config dispatching on the strategy keys of a        *)
(* configuration, generate_spacetime_aggregations, and the                 *)
(* SpacetimeAggregationGenerator that builds the column specs of every     *)
(* aggregation block (choice lookups through a per-instance cache,         *)
(* imputation rules merged with dict()), assembles the                     *)
(* SpacetimeAggregation and preprocesses it (schema creation, FromObj      *)
(* materialization).                                                       *)
(*                                                                         *)
(* The strategy keys of the configuration, the blocks under the            *)
(* spacetime_aggregations key (their prefix and from_obj) and the caller's *)
(* arguments are fixed by Init.  The feature entries of a block and its    *)
(* type-level imputation blocks are drawn when the code reads them; the    *)
(* answers of the relational store and of the aggregation engine are drawn *)
(* when the code asks for them.                                            *)
(***************************************************************************)
EXTENDS Integers, Sequences, FiniteSets, TLC

\* ------------------------------------------------------------------ bounds

\* aggregation-block configs under one strategy key
MaxBlocks == 2
\* feature entries (aggregates, categoricals, array_categoricals) of one block
MaxEntries == 2

\* ------------------------------------------------------------- input values

\* python None, where an object is expected
None == [none |-> TRUE]

\* python None, where a string is expected
NoneStr == "<None>"

\* python: a dict with no entries
EmptyDict == [k \in {} |-> None]

Get(d, k, default) == IF k \in DOMAIN d THEN d[k] ELSE default

Range(s) == { s[i] : i \in DOMAIN s }

\* the strategy keys a configuration may carry
StrategyKeys == { "spacetime_aggregations", "bogus_strategy" }

\* the cohort_table argument: None, the empty string, or a table name
CohortTables == { NoneStr, "", "cohorts.cohort" }

\* from_obj expressions: a subquery with its alias, and a bare table reference
SubqueryFromObj == [subquery |-> "select * from events", alias |-> "ev"]
TableFromObj == [table |-> << "events" >>]
SchemaName == "features"

\* the part of an aggregation-block config that Init fixes
BlockConfig(p, f) ==
    [prefix |-> p, from_obj |-> f, knowledge_date_column |-> "knowledge_date"]

BlockConfigs ==
    { BlockConfig("p1", SubqueryFromObj),
      BlockConfig("p2", SubqueryFromObj),
      BlockConfig("p1", TableFromObj) }

RECURSIVE SeqsUpTo(_, _)
SeqsUpTo(S, n) ==
    IF n = 0 THEN { << >> }
    ELSE LET shorter == SeqsUpTo(S, n - 1)
         IN  shorter \cup { Append(s, x) : s \in { t \in shorter : Len(t) = n - 1 }, x \in S }

\* key orders of a configuration dict: distinct keys, in insertion order
KeyOrders ==
    { s \in SeqsUpTo(StrategyKeys, Cardinality(StrategyKeys)) :
        \A i, j \in DOMAIN s : i # j => s[i] # s[j] }

\* config.items(): a sequence of (key, value) in insertion order
Configs ==
    UNION { { [i \in DOMAIN ks |->
                  [key |-> ks[i],
                   value |-> IF ks[i] = "spacetime_aggregations" THEN bs ELSE << >>]]
              : bs \in SeqsUpTo(BlockConfigs, MaxBlocks) }
            : ks \in KeyOrders }

\* the arguments besides config: cohort_table, features_ignore_cohort and, through
\* **kwargs, materialize_subquery_fromobjs
Arguments ==
    [cohort_table : CohortTables,
     features_ignore_cohort : BOOLEAN,
     materialize_subquery_fromobjs : BOOLEAN]

\* a supplied cohort table and the defaults of the signatures
DefaultArguments ==
    [cohort_table |-> "cohorts.cohort",
     features_ignore_cohort |-> FALSE,
     materialize_subquery_fromobjs |-> TRUE]

\* the configurations with the one recognized key and blocks of one kind
PlainConfigs ==
    { c \in Configs :
        /\ Len(c) = 1
        /\ c[1].key = "spacetime_aggregations"
        /\ \A i \in DOMAIN c[1].value : c[1].value[i] = BlockConfig("p1", SubqueryFromObj) }

\* the calls explored: every configuration under the default arguments, and
\* every combination of arguments over the plain configurations
Calls ==
    { [config |-> c, arguments |-> DefaultArguments] : c \in Configs }
    \cup { [config |-> c, arguments |-> a] : c \in PlainConfigs, a \in Arguments }

\* the type-level imputation blocks of an aggregation-block config
\* (aggregates_imputation, categoricals_imputation, array_categoricals_imputation);
\* a block config without them is the first
TypeImputations ==
    { << EmptyDict, EmptyDict, EmptyDict >>,
      << [a |-> "1", b |-> "2"], [a |-> "1", coltype |-> "zz"], [b |-> "2"] >>,
      << [a |-> "1", coltype |-> "zz"], [a |-> "1", b |-> "2"], [b |-> "2", coltype |-> "zz"] >> }

OverrideImputation == [b |-> "3", c |-> "4"]
ColtypeImputation == [coltype |-> "zz"]

\* aggregate entries: without an imputation block and with one
AggregateEntries ==
    LET base == [quantity |-> "amount", metrics |-> << "sum" >>]
    IN  { base,
          base @@ [imputation |-> OverrideImputation],
          base @@ [imputation |-> ColtypeImputation] }

KindQuery == "select distinct kind from events"
ZipQuery == "select distinct zip from events"
ChoiceQueries == { KindQuery, ZipQuery }

ExplicitChoices == << "red", "blue" >>

\* categorical entries: explicit choices, a choice_query, both, or neither,
\* without an imputation block and with one
CategoricalEntries ==
    LET base == [column |-> "kind", metrics |-> << "max" >>]
    IN  { base,
          base @@ [choices |-> ExplicitChoices],
          base @@ [choice_query |-> KindQuery],
          base @@ [choice_query |-> ZipQuery],
          base @@ [choices |-> ExplicitChoices, choice_query |-> KindQuery],
          base @@ [choices |-> ExplicitChoices, choice_query |-> ZipQuery],
          base @@ [choices |-> ExplicitChoices, imputation |-> OverrideImputation],
          base @@ [choice_query |-> KindQuery, imputation |-> OverrideImputation],
          base @@ [choice_query |-> ZipQuery, imputation |-> ColtypeImputation],
          base @@ [choices |-> ExplicitChoices, choice_query |-> KindQuery,
                   imputation |-> ColtypeImputation] }

\* result sets of a choice query, rows of (value, count): no row, and two rows
QueryResults ==
    { << >>,
      << << "y", "7" >>, << "x", "10" >> >> }

\* ------------------------------------------------------------ pure helpers

\* [row[0] for row in conn.execute(choice_query)]
FirstColumn(rows) == [i \in DOMAIN rows |-> rows[i][1]]

TypeError == [raised |-> "TypeError"]

\* as if the tag were only a fallback: rules = dict(impute_rules, **kwargs);
\* rules.setdefault("coltype", <variant>)
impute_rules_setdefault(impute_rules, coltype, kwargs) ==
    [k \in DOMAIN impute_rules \cup { "coltype" } \cup DOMAIN kwargs |->
        IF k \in DOMAIN kwargs THEN kwargs[k]
        ELSE IF k \in DOMAIN impute_rules THEN impute_rules[k]
        ELSE coltype]

\* dict(impute_rules, coltype=<variant>, **kwargs): a new dict; a key given both
\* as the keyword coltype and in kwargs is a TypeError
impute_rules_dict(impute_rules, coltype, kwargs) ==
    IF "coltype" \in DOMAIN kwargs
    THEN TypeError
    ELSE [k \in DOMAIN impute_rules \cup { "coltype" } \cup DOMAIN kwargs |->
            IF k \in DOMAIN kwargs THEN kwargs[k]
            ELSE IF k = "coltype" THEN coltype
            ELSE impute_rules[k]]

\* as if the merge were done in place: impute_rules.update(kwargs)
impute_rules_updated(impute_rules, coltype, kwargs) ==
    [k \in DOMAIN impute_rules \cup DOMAIN kwargs |->
        IF k \in DOMAIN kwargs THEN kwargs[k] ELSE impute_rules[k]]

\* dict(...) copies: the mapping passed as impute_rules is what it was
impute_rules_after(impute_rules, coltype, kwargs) == impute_rules

\* as if a choice_query, when present, were preferred to the explicit choices
choices_unless_query(categorical) ==
    "choices" \in DOMAIN categorical /\ "choice_query" \notin DOMAIN categorical

\* if "choices" in categorical
has_explicit_choices(categorical) == "choices" \in DOMAIN categorical

\* as if the cache were never consulted
cache_miss_always(cache, choice_query) == TRUE

\* if choice_query not in self.categorical_cache
cache_miss(cache, choice_query) == choice_query \notin DOMAIN cache

\* as if the failure of a store call were caught and dropped
swallowed(ok) == FALSE

\* an exception raised inside `with self.db_engine.begin() as conn` leaves the
\* block and the method: nothing here catches it
propagates(ok) == ~ok

\* if not cohort_table
cohort_absent(table) == table = NoneStr \/ table = ""

\* as if the caller's flag were handed on whatever the cohort table
caller_ignore_cohort(table, flag) == flag

\* features_ignore_cohort as generate_spacetime_aggregations hands it on
effective_ignore_cohort(table, flag) == IF cohort_absent(table) THEN TRUE ELSE flag

\* as if the target were named by the prefix alone
name_without_schema(aggregation) == << aggregation.prefix >>

\* name=f"{aggregation.features_schema_name}.{aggregation.prefix}"
materialization_name(aggregation) ==
    << aggregation.features_schema_name, ".", aggregation.prefix >>

\* as if the flag were not tested
materialize_always(flag) == TRUE

\* if self.materialize_subquery_fromobjs
materialize_enabled(flag) == flag

\* as if each aggregation were put at the front of the list
collect_front(list, aggregation) == << aggregation >> \o list

\* the list comprehension of aggregations() collects in iteration order
collect(list, aggregation) == Append(list, aggregation)

\* ---------------------------------- collaborators outside this source file

\* FromObj: whether the from_obj is worth persisting, i.e. is not already a
\* bare table reference
should_materialize(from_obj) == "subquery" \in DOMAIN from_obj

\* FromObj.maybe_materialize, "create table if not exists": the creations of
\* each physical table after the call
tables_after_materialize(created, name) ==
    IF name \in DOMAIN created THEN created ELSE created @@ (name :> 1)

\* FromObj.table: the physical table once materialized, else the from_obj as given
from_obj_table(from_obj, name) ==
    IF should_materialize(from_obj) THEN [table |-> name] ELSE from_obj

\* SpacetimeAggregation.get_create_schema(): a directive or None
CreateSchemaDirectives == { NoneStr, "create schema if not exists features" }

\* ------------------------------------------------------------------- state

VARIABLES
    \* arguments of feature_blocks_from_config
    config, cohort_table, arg_features_ignore_cohort, materialize_subquery_fromobjs,
    \* feature_blocks_from_config; returned is None until the return, then
    \* holds the list returned
    pc, error, keyIdx, feature_blocks, returned,
    \* generate_spacetime_aggregations and the generator it constructs
    warnings, categorical_cache, features_ignore_cohort,
    \* aggregations(), _aggregation() and preprocess_aggregation()
    blockIdx, aggregation_config, aggs, aggregation, n, agimp, catimp, arrcatimp, lifecycle,
    \* the relational store and the calls made to it so far
    tables, execCount, executedRows, storeCalls, failedCalls,
    \* what the step just taken did: its store call, the column spec it
    \* constructed, the choices it resolved (None when it did not)
    lastCall, lastSpec, lastChoices

inputs == << config, cohort_table, arg_features_ignore_cohort, materialize_subquery_fromobjs >>
orchestrator == << keyIdx, feature_blocks, returned >>
generator == << warnings, categorical_cache, features_ignore_cohort >>
block == << blockIdx, aggs, aggregation, lifecycle >>
building == << aggregation_config, n, agimp, catimp, arrcatimp >>
store == << tables, execCount, executedRows, storeCalls, failedCalls >>

vars == << inputs, pc, error, orchestrator, generator, building, block, store,
           lastCall, lastSpec, lastChoices >>

FEATURE_BLOCK_GENERATOR_LOOKUP == { "spacetime_aggregations" }

\* the value of the strategy key being processed
config_value == config[keyIdx].value

Init ==
    /\ \E call \in Calls :
          /\ config = call.config
          /\ cohort_table = call.arguments.cohort_table
          /\ arg_features_ignore_cohort = call.arguments.features_ignore_cohort
          /\ materialize_subquery_fromobjs = call.arguments.materialize_subquery_fromobjs
    /\ pc = "dispatch"
    /\ error = None
    /\ keyIdx = 1
    /\ feature_blocks = << >>
    /\ returned = None
    /\ warnings = 0
    /\ categorical_cache = EmptyDict
    /\ features_ignore_cohort = arg_features_ignore_cohort
    /\ blockIdx = 0
    /\ aggregation_config = None
    /\ aggs = << >>
    /\ aggregation = None
    /\ n = 0
    /\ agimp = EmptyDict
    /\ catimp = EmptyDict
    /\ arrcatimp = EmptyDict
    /\ lifecycle = << >>
    /\ tables = EmptyDict
    /\ execCount = [q \in ChoiceQueries |-> 0]
    /\ executedRows = EmptyDict
    /\ storeCalls = 0
    /\ failedCalls = 0
    /\ lastCall = None
    /\ lastSpec = None
    /\ lastChoices = None

\* an exception leaves every frame: the run is over and nothing is returned
Raise(e) ==
    /\ pc' = "failed"
    /\ error' = e

\* a call to the relational store, as the store saw it
StoreCall(kind, ok) ==
    /\ storeCalls' = storeCalls + 1
    /\ failedCalls' = failedCalls + (IF ok THEN 0 ELSE 1)
    /\ lastCall' = [kind |-> kind, ok |-> ok, block |-> blockIdx, lifecycle |-> lifecycle]

NoStoreCall ==
    /\ UNCHANGED store
    /\ lastCall' = None

NothingBuilt ==
    /\ lastSpec' = None
    /\ lastChoices' = None

\* --------------------------------------------- feature_blocks_from_config

\* an unrecognized key: ValueError naming the key and the recognized keys
RaiseUnrecognizedKey ==
    /\ pc = "dispatch"
    /\ keyIdx <= Len(config)
    /\ config[keyIdx].key \notin FEATURE_BLOCK_GENERATOR_LOOKUP
    /\ Raise([raised |-> "ValueError", key |-> config[keyIdx].key,
              recognized |-> FEATURE_BLOCK_GENERATOR_LOOKUP])
    /\ NoStoreCall
    /\ NothingBuilt
    /\ UNCHANGED << inputs, orchestrator, generator, building, block >>

\* a recognized key: the generator function is called with the key's value;
\* it warns on an absent cohort table and constructs a fresh generator
generate_spacetime_aggregations ==
    /\ pc = "dispatch"
    /\ keyIdx <= Len(config)
    /\ config[keyIdx].key \in FEATURE_BLOCK_GENERATOR_LOOKUP
    /\ warnings' = warnings + (IF cohort_absent(cohort_table) THEN 1 ELSE 0)
    /\ features_ignore_cohort' =
           effective_ignore_cohort(cohort_table, arg_features_ignore_cohort)
    /\ categorical_cache' = EmptyDict
    /\ blockIdx' = 1
    /\ aggs' = << >>
    /\ aggregation' = None
    /\ lifecycle' = [k \in 1..Len(config_value) |-> "Unassembled"]
    /\ pc' = "aggregations"
    /\ NoStoreCall
    /\ NothingBuilt
    /\ UNCHANGED << inputs, error, orchestrator, building >>

\* the configuration is exhausted: the list is returned
ReturnFeatureBlocks ==
    /\ pc = "dispatch"
    /\ keyIdx > Len(config)
    /\ returned' = [value |-> feature_blocks]
    /\ pc' = "done"
    /\ NoStoreCall
    /\ NothingBuilt
    /\ UNCHANGED << inputs, error, keyIdx, feature_blocks, generator, building, block >>

\* ------------------------------------------ SpacetimeAggregationGenerator

\* aggregations(): the next aggregation_config; _aggregation() reads its
\* type-level imputation blocks
aggregation_start ==
    /\ pc = "aggregations"
    /\ blockIdx <= Len(config_value)
    /\ \E imp \in TypeImputations :
          /\ aggregation_config' = [aggregates_imputation |-> imp[1],
                                    categoricals_imputation |-> imp[2],
                                    array_categoricals_imputation |-> imp[3]]
          /\ agimp' = imp[1]
          /\ catimp' = imp[2]
          /\ arrcatimp' = imp[3]
    /\ n' = 0
    /\ pc' = "aggregates"
    /\ NoStoreCall
    /\ NothingBuilt
    /\ UNCHANGED << inputs, error, orchestrator, generator, block >>

\* aggregations() returns its list; feature_blocks_from_config appends every
\* block of it and moves to the next key
aggregations_return ==
    /\ pc = "aggregations"
    /\ blockIdx > Len(config_value)
    /\ feature_blocks' = feature_blocks \o aggs
    /\ keyIdx' = keyIdx + 1
    /\ pc' = "dispatch"
    /\ NoStoreCall
    /\ NothingBuilt
    /\ UNCHANGED << inputs, error, returned, generator, building, block >>

\* a column spec is constructed, or dict() raises
ColumnSpec(class, coltype, impute_rules, entry, choices) ==
    LET rules == impute_rules_dict(impute_rules, coltype, Get(entry, "imputation", EmptyDict))
    IN  IF rules = TypeError
        THEN /\ Raise(TypeError)
             /\ lastSpec' = None
             /\ UNCHANGED n
        ELSE /\ lastSpec' = [class |-> class, entry |-> entry, impute_rules |-> rules,
                             choices |-> choices, coltype |-> Get(entry, "coltype", NoneStr)]
             /\ n' = n + 1
             /\ UNCHANGED << pc, error >>

\* Aggregate(quantity, metrics, dict(agimp, coltype="aggregate", **imputation))
build_aggregate ==
    /\ pc = "aggregates"
    /\ n < MaxEntries
    /\ \E aggregate \in AggregateEntries :
          /\ ColumnSpec("Aggregate", "aggregate", agimp, aggregate, << >>)
          /\ agimp' = impute_rules_after(agimp, "aggregate",
                                         Get(aggregate, "imputation", EmptyDict))
    /\ NoStoreCall
    /\ lastChoices' = None
    /\ UNCHANGED << inputs, orchestrator, generator, aggregation_config, catimp, arrcatimp,
                    block >>

end_aggregates ==
    /\ pc = "aggregates"
    /\ pc' = "categoricals"
    /\ NoStoreCall
    /\ NothingBuilt
    /\ UNCHANGED << inputs, error, orchestrator, generator, building, block >>

\* what _build_choices returned, and the store and cache around the call
Resolved(categorical, query, result) ==
    lastChoices' = [entry |-> categorical, query |-> query, result |-> result,
                    calls_before |-> storeCalls, calls_after |-> storeCalls',
                    cache_before |-> categorical_cache,
                    cache_after |-> categorical_cache']

\* Compare(choices={choice: "array['{}'::varchar]".format(choice) ...}, op="@>")
ArrayChoices(choices) ==
    [choice \in Range(choices) |-> << "array['", choice, "'::varchar]" >>]

\* the choices argument: the resolved list for a Categorical, the dict of
\* array literals for a Compare
ChoicesArgument(class, choices) ==
    IF class = "Compare" THEN ArrayChoices(choices) ELSE choices

\* _build_choices, then the column spec around it: the choices argument is
\* evaluated before the impute_rules argument
build_entry(class, coltype, impute_rules, categorical) ==
    \/ /\ has_explicit_choices(categorical)
       /\ UNCHANGED categorical_cache
       /\ NoStoreCall
       /\ Resolved(categorical, NoneStr, categorical.choices)
       /\ ColumnSpec(class, coltype, impute_rules, categorical, ChoicesArgument(class, categorical.choices))
    \/ /\ ~has_explicit_choices(categorical)
       /\ "choice_query" \notin DOMAIN categorical
       /\ Raise([raised |-> "KeyError", key |-> "choice_query"])
       /\ NoStoreCall
       /\ NothingBuilt
       /\ UNCHANGED << categorical_cache, n >>
    \/ /\ ~has_explicit_choices(categorical)
       /\ "choice_query" \in DOMAIN categorical
       /\ LET choice_query == categorical.choice_query
          IN  IF cache_miss(categorical_cache, choice_query)
              THEN \E rows \in QueryResults, ok \in BOOLEAN :
                     /\ StoreCall("choice_query", ok)
                     /\ execCount' = [execCount EXCEPT ![choice_query] = @ + 1]
                     /\ executedRows' = IF choice_query \in DOMAIN executedRows \/ ~ok
                                        THEN executedRows
                                        ELSE executedRows @@ (choice_query :> rows)
                     /\ UNCHANGED tables
                     /\ IF propagates(ok)
                        THEN /\ Raise([raised |-> "StoreError", call |-> "choice_query"])
                             /\ NothingBuilt
                             /\ UNCHANGED << categorical_cache, n >>
                        ELSE LET computed == IF ok THEN FirstColumn(rows) ELSE << >>
                             IN  /\ categorical_cache' =
                                       [q \in DOMAIN categorical_cache \cup { choice_query } |->
                                           IF q = choice_query THEN computed
                                           ELSE categorical_cache[q]]
                                 /\ Resolved(categorical, choice_query, computed)
                                 /\ ColumnSpec(class, coltype, impute_rules, categorical,
                                               ChoicesArgument(class, computed))
              ELSE /\ UNCHANGED categorical_cache
                   /\ NoStoreCall
                   /\ Resolved(categorical, choice_query, categorical_cache[choice_query])
                   /\ ColumnSpec(class, coltype, impute_rules, categorical,
                                 ChoicesArgument(class, categorical_cache[choice_query]))

build_categoricals ==
    /\ pc = "categoricals"
    /\ n < MaxEntries
    /\ \E categorical \in CategoricalEntries :
          /\ build_entry("Categorical", "categorical", catimp, categorical)
          /\ catimp' = impute_rules_after(catimp, "categorical",
                                          Get(categorical, "imputation", EmptyDict))
    /\ UNCHANGED << inputs, orchestrator, warnings, features_ignore_cohort,
                    aggregation_config, agimp, arrcatimp, block >>

end_categoricals ==
    /\ pc = "categoricals"
    /\ pc' = "array_categoricals"
    /\ NoStoreCall
    /\ NothingBuilt
    /\ UNCHANGED << inputs, error, orchestrator, generator, building, block >>

build_array_categoricals ==
    /\ pc = "array_categoricals"
    /\ n < MaxEntries
    /\ \E categorical \in CategoricalEntries :
          /\ build_entry("Compare", "array_categorical", arrcatimp, categorical)
          /\ arrcatimp' = impute_rules_after(arrcatimp, "array_categorical",
                                             Get(categorical, "imputation", EmptyDict))
    /\ UNCHANGED << inputs, orchestrator, warnings, features_ignore_cohort,
                    aggregation_config, agimp, catimp, block >>

\* SpacetimeAggregation(aggregates + categoricals + array_categoricals, ...)
assemble ==
    /\ pc = "array_categoricals"
    /\ aggregation' =
           [index |-> blockIdx,
            prefix |-> config_value[blockIdx].prefix,
            from_obj |-> config_value[blockIdx].from_obj,
            date_column |-> config_value[blockIdx].knowledge_date_column,
            cohort_table |-> cohort_table,
            features_schema_name |-> SchemaName,
            features_ignore_cohort |-> features_ignore_cohort]
    /\ lifecycle' = [lifecycle EXCEPT ![blockIdx] = "Assembled"]
    /\ pc' = "create_schema"
    \* _aggregation returns: its locals are gone
    /\ aggregation_config' = None
    /\ n' = 0
    /\ agimp' = EmptyDict
    /\ catimp' = EmptyDict
    /\ arrcatimp' = EmptyDict
    /\ NoStoreCall
    /\ NothingBuilt
    /\ UNCHANGED << inputs, error, orchestrator, generator, blockIdx, aggs >>

\* preprocess_aggregation: the schema-creation directive, when there is one
ensure_schema ==
    /\ pc = "create_schema"
    /\ \E create_schema \in CreateSchemaDirectives :
          IF create_schema = NoneStr
          THEN /\ lifecycle' = [lifecycle EXCEPT ![blockIdx] = "SchemaEnsured"]
               /\ pc' = "materialize"
               /\ NoStoreCall
               /\ UNCHANGED error
          ELSE \E ok \in BOOLEAN :
                 /\ StoreCall("create_schema", ok)
                 /\ UNCHANGED << tables, execCount, executedRows >>
                 /\ IF propagates(ok)
                    THEN /\ Raise([raised |-> "StoreError", call |-> "create_schema"])
                         /\ UNCHANGED lifecycle
                    ELSE /\ lifecycle' = [lifecycle EXCEPT ![blockIdx] = "SchemaEnsured"]
                         /\ pc' = "materialize"
                         /\ UNCHANGED error
    /\ NothingBuilt
    /\ UNCHANGED << inputs, orchestrator, generator, building, blockIdx, aggs, aggregation >>

\* preprocess_aggregation: FromObj(...).maybe_materialize(db_engine), then
\* aggregation.from_obj = from_obj.table
materialize ==
    /\ pc = "materialize"
    /\ materialize_enabled(materialize_subquery_fromobjs)
    /\ LET name == materialization_name(aggregation)
       IN  IF should_materialize(aggregation.from_obj)
           THEN \E ok \in BOOLEAN :
                  /\ StoreCall("materialize", ok)
                  /\ UNCHANGED << execCount, executedRows >>
                  /\ IF propagates(ok)
                     THEN /\ Raise([raised |-> "StoreError", call |-> "materialize"])
                          /\ UNCHANGED << tables, aggregation, lifecycle >>
                     ELSE /\ tables' = IF ok THEN tables_after_materialize(tables, name)
                                       ELSE tables
                          /\ aggregation' =
                                 [aggregation EXCEPT
                                    !.from_obj = from_obj_table(aggregation.from_obj, name)]
                          /\ lifecycle' = [lifecycle EXCEPT ![blockIdx] = "Materialized"]
                          /\ pc' = "return"
                          /\ UNCHANGED error
           ELSE /\ aggregation' =
                      [aggregation EXCEPT
                         !.from_obj = from_obj_table(aggregation.from_obj, name)]
                /\ lifecycle' = [lifecycle EXCEPT ![blockIdx] = "NotMaterialized"]
                /\ pc' = "return"
                /\ NoStoreCall
                /\ UNCHANGED error
    /\ NothingBuilt
    /\ UNCHANGED << inputs, orchestrator, generator, building, blockIdx, aggs >>

\* preprocess_aggregation with materialization off: from_obj is left as it is
skip_materialize ==
    /\ pc = "materialize"
    /\ ~materialize_enabled(materialize_subquery_fromobjs)
    /\ lifecycle' = [lifecycle EXCEPT ![blockIdx] = "NotMaterialized"]
    /\ pc' = "return"
    /\ NoStoreCall
    /\ NothingBuilt
    /\ UNCHANGED << inputs, error, orchestrator, generator, building, blockIdx, aggs,
                    aggregation >>

\* preprocess_aggregation returns the aggregation; aggregations() collects it
return_aggregation ==
    /\ pc = "return"
    /\ lifecycle' = [lifecycle EXCEPT ![blockIdx] = "Ready"]
    /\ aggs' = collect(aggs, aggregation)
    /\ blockIdx' = blockIdx + 1
    /\ pc' = "aggregations"
    /\ NoStoreCall
    /\ NothingBuilt
    /\ UNCHANGED << inputs, error, orchestrator, generator, building, aggregation >>

Next ==
    \/ RaiseUnrecognizedKey
    \/ generate_spacetime_aggregations
    \/ ReturnFeatureBlocks
    \/ aggregation_start
    \/ aggregations_return
    \/ build_aggregate
    \/ end_aggregates
    \/ build_categoricals
    \/ end_categoricals
    \/ build_array_categoricals
    \/ assemble
    \/ ensure_schema
    \/ materialize
    \/ skip_materialize
    \/ return_aggregation

Spec == Init /\ [][Next]_vars

\* ------------------------------------------------------------------ claims

HasUnrecognizedKey ==
    \E i \in DOMAIN config : config[i].key \notin FEATURE_BLOCK_GENERATOR_LOOKUP

\* every block config of the configuration, in the order of the keys and then of
\* the blocks under each key
RECURSIVE BlocksFrom(_)
BlocksFrom(i) == IF i > Len(config) THEN << >> ELSE config[i].value \o BlocksFrom(i + 1)
ConfiguredBlocks == BlocksFrom(1)

\* C1: a configuration that holds an unrecognized strategy key ends in the error
\* before any store call is made and before any block is generated, wherever
\* the key stands in the configuration.
C1_UnrecognizedKeyAbortsBeforeAnyWork ==
    HasUnrecognizedKey =>
        /\ storeCalls = 0
        /\ lastSpec = None
        /\ aggregation = None
        /\ aggs = << >>
        /\ feature_blocks = << >>

\* C2: in one generator, the store query of a lookup-query text is executed at
\* most once, exactly once when the text has been resolved, and every
\* resolution of it returns the first column of the rows of that execution, in
\* row order.
C2_ChoiceQueryExecutedOnce ==
    /\ \A q \in ChoiceQueries : execCount[q] <= 1
    /\ (lastChoices # None /\ lastChoices.query # NoneStr) =>
          LET q == lastChoices.query
          IN  /\ execCount[q] = 1
              /\ q \in DOMAIN executedRows
              /\ Len(lastChoices.result) = Len(executedRows[q])
              /\ \A i \in DOMAIN executedRows[q] :
                    lastChoices.result[i] = executedRows[q][i][1]

\* C2 witness: a query text already executed is resolved again, in a later
\* block, from the cache, and gives the two values of its two rows.
C2_Witness ==
    /\ lastChoices # None
    /\ lastChoices.query = ZipQuery
    /\ lastChoices.calls_after = lastChoices.calls_before
    /\ lastChoices.result = << "y", "x" >>
    /\ blockIdx = 2
    /\ execCount[ZipQuery] = 1

\* C3: resolving an entry that supplies explicit choices returns that list
\* unchanged, makes no store call (also when the entry carries a choice_query)
\* and leaves the choice cache as it was.
C3_ExplicitChoicesNoQuery ==
    (lastChoices # None /\ "choices" \in DOMAIN lastChoices.entry) =>
        /\ lastChoices.result = lastChoices.entry.choices
        /\ lastChoices.calls_after = lastChoices.calls_before
        /\ lastChoices.cache_after = lastChoices.cache_before
        /\ lastCall = None

\* C3 witness: an entry with explicit choices and a choice_query that the
\* cache does not hold has been resolved.
C3_Witness ==
    /\ lastChoices # None
    /\ "choices" \in DOMAIN lastChoices.entry
    /\ "choice_query" \in DOMAIN lastChoices.entry
    /\ lastChoices.entry.choice_query \notin DOMAIN categorical_cache
    /\ lastChoices.result = ExplicitChoices

\* C4: the returned list holds exactly one block per configured block config,
\* in the order of the strategy keys and then of the block configs under each.
C4_OutputOrder ==
    returned # None =>
        /\ Len(returned.value) = Len(ConfiguredBlocks)
        /\ \A k \in DOMAIN returned.value :
              /\ returned.value[k].index = k
              /\ returned.value[k].prefix = ConfiguredBlocks[k].prefix
              /\ returned.value[k].date_column = ConfiguredBlocks[k].knowledge_date_column

\* C4 witness: a list of two blocks with different prefixes has been returned.
C4_Witness ==
    /\ returned # None
    /\ Len(returned.value) = 2
    /\ returned.value[1].prefix = "p2"
    /\ returned.value[2].prefix = "p1"

\* C5: once a store call has failed the run has ended with that failure: no
\* step follows it, so no further store call and no second attempt, and no
\* list is returned.
C5_StoreFailureAborts ==
    /\ failedCalls <= 1
    /\ failedCalls = 1 =>
          /\ pc = "failed"
          /\ error = [raised |-> "StoreError", call |-> lastCall.kind]
          /\ lastCall # None
          /\ ~lastCall.ok
          /\ returned = None

\* C5 witness: the materialization of the second block has failed, after
\* earlier store calls went through.
C5_Witness ==
    /\ failedCalls = 1
    /\ lastCall # None
    /\ lastCall.kind = "materialize"
    /\ lastCall.block = 2
    /\ storeCalls > 2

\* the physical table of a block, named {features_schema_name}.{prefix}
PhysicalTable(prefix) == [table |-> << SchemaName, ".", prefix >>]

\* the aggregations preprocessed so far in this generator run
Preprocessed == IF pc = "return" THEN Append(aggs, aggregation) ELSE aggs

CohortAbsent == cohort_table \in { NoneStr, "" }

\* every block built so far, in the generator and in the caller's list
BlocksBuilt ==
    feature_blocks \o aggs \o (IF aggregation = None THEN << >> ELSE << aggregation >>)

\* C7: with an absent cohort table the run is not failed for it, the warning is
\* out before anything of a block is built, and every block is built with
\* features_ignore_cohort true whatever the caller passed; with a cohort table
\* there is no warning and every block carries the caller's flag.
C7_AbsentCohort ==
    /\ \A k \in DOMAIN BlocksBuilt :
          BlocksBuilt[k].features_ignore_cohort =
              (IF CohortAbsent THEN TRUE ELSE arg_features_ignore_cohort)
    /\ CohortAbsent =>
          /\ (pc \notin { "dispatch", "failed", "done" } \/ BlocksBuilt # << >>) => warnings = 1
          /\ pc = "failed" => error.raised \in { "StoreError", "KeyError", "TypeError" }
    /\ ~CohortAbsent => warnings = 0

\* C7 witness: a run with an absent cohort table and the caller's flag false
\* has returned two blocks.
C7_Witness ==
    /\ returned # None
    /\ cohort_table = ""
    /\ ~arg_features_ignore_cohort
    /\ Len(returned.value) = 2
    /\ returned.value[2].features_ignore_cohort
    /\ warnings = 1

\* the coltype tag of each column spec class
ColtypeOf(class) ==
    CASE class = "Aggregate" -> "aggregate"
      [] class = "Categorical" -> "categorical"
      [] class = "Compare" -> "array_categorical"

\* the type-level imputation block of the config for a column spec class
ConfiguredDefault(class) ==
    CASE class = "Aggregate" -> aggregation_config.aggregates_imputation
      [] class = "Categorical" -> aggregation_config.categoricals_imputation
      [] class = "Compare" -> aggregation_config.array_categoricals_imputation

\* C8: the imputation rules of every column spec that is built carry the
\* coltype of its own variant, whatever coltype its defaults carry.
C8_ColtypeTag ==
    lastSpec # None =>
        /\ "coltype" \in DOMAIN lastSpec.impute_rules
        /\ lastSpec.impute_rules["coltype"] = ColtypeOf(lastSpec.class)

\* C8 witness: an array categorical has been built under a type-level default
\* that carries a coltype of its own.
C8_Witness ==
    /\ lastSpec # None
    /\ lastSpec.class = "Compare"
    /\ "coltype" \in DOMAIN aggregation_config.array_categoricals_imputation
    /\ lastSpec.impute_rules["coltype"] = "array_categorical"

\* C9: the imputation rules of every column spec are the type-level default of
\* the config merged with the feature's own imputation block: the keys of both
\* and coltype, the feature's value on every key it gives, the default's value
\* on its other keys; and the defaults the generator works with stay those of
\* the config.
C9_ImputationMerge ==
    /\ lastSpec # None =>
          LET default == ConfiguredDefault(lastSpec.class)
              override == Get(lastSpec.entry, "imputation", EmptyDict)
              rules == lastSpec.impute_rules
          IN  /\ DOMAIN rules = DOMAIN default \cup DOMAIN override \cup { "coltype" }
              /\ \A k \in DOMAIN override : rules[k] = override[k]
              /\ \A k \in DOMAIN default \ (DOMAIN override \cup { "coltype" }) :
                    rules[k] = default[k]
    /\ aggregation_config # None =>
          /\ agimp = aggregation_config.aggregates_imputation
          /\ catimp = aggregation_config.categoricals_imputation
          /\ arrcatimp = aggregation_config.array_categoricals_imputation

\* C9 witness: the default {a:1, b:2} merged with {b:3, c:4}, for the second
\* feature of a block.
C9_Witness ==
    /\ lastSpec # None
    /\ n = 2
    /\ lastSpec.class = "Categorical"
    /\ aggregation_config.categoricals_imputation = [a |-> "1", b |-> "2"]
    /\ "imputation" \in DOMAIN lastSpec.entry
    /\ lastSpec.entry.imputation = OverrideImputation
    /\ lastSpec.impute_rules = [a |-> "1", b |-> "3", c |-> "4", coltype |-> "categorical"]

\* the steps of the lifecycle of one aggregation block
LifecycleSteps ==
    { << "Unassembled", "Assembled" >>,
      << "Assembled", "SchemaEnsured" >>,
      << "SchemaEnsured", "Materialized" >>,
      << "SchemaEnsured", "NotMaterialized" >>,
      << "Materialized", "Ready" >>,
      << "NotMaterialized", "Ready" >> }

\* where each kind of store call stands in the lifecycle of its block
LifecycleAtCall(kind) ==
    CASE kind = "choice_query" -> "Unassembled"
      [] kind = "create_schema" -> "Assembled"
      [] kind = "materialize" -> "SchemaEnsured"

C10_Sequential ==
    \* a store call is made for the block in hand, in the lifecycle state its kind
    \* belongs to, when every earlier block is Ready and no later one is begun
    /\ lastCall # None =>
          /\ lastCall.lifecycle[lastCall.block] = LifecycleAtCall(lastCall.kind)
          /\ \A j \in DOMAIN lastCall.lifecycle :
                /\ j < lastCall.block => lastCall.lifecycle[j] = "Ready"
                /\ j > lastCall.block => lastCall.lifecycle[j] = "Unassembled"
          /\ lastCall.kind = "materialize" => materialize_subquery_fromobjs
    \* the blocks collected and the blocks returned are Ready
    /\ \A k \in DOMAIN aggs : lifecycle[aggs[k].index] = "Ready"
    /\ returned # None =>
          \A k \in DOMAIN returned.value : lifecycle[returned.value[k].index] = "Ready"
    \* with materialization off the from_obj is the configured one
    /\ ~materialize_subquery_fromobjs =>
          \A k \in DOMAIN Preprocessed :
              /\ Preprocessed[k].from_obj = ConfiguredBlocks[k].from_obj
              /\ lifecycle[k] \in { "NotMaterialized", "Ready" }

C10_Forward ==
    \A k \in DOMAIN lifecycle :
        \/ lifecycle'[k] = lifecycle[k]
        \/ << lifecycle[k], lifecycle'[k] >> \in LifecycleSteps

\* C10: every aggregation block goes through its lifecycle forward, one step at
\* a time (choice lookups and assembly, schema creation, materialization or
\* not, Ready); store calls are made for one block at a time, in the state
\* their kind belongs to, the materialization call only when materialization
\* is on; only Ready blocks are collected and returned.
C10_Lifecycle == [](C10_Sequential) /\ [][C10_Forward]_vars

\* C10 witness: a store call of the second block, made when the first is Ready.
C10_Witness ==
    /\ lastCall # None
    /\ lastCall.block = 2
    /\ lastCall.kind = "create_schema"
    /\ lastCall.lifecycle = << "Ready", "Assembled" >>
    /\ ~materialize_subquery_fromobjs

====
